---- MODULE Spec2Model ----
(***************************************************************************)
(* LVGC Minutes Recap (src/lv.py): the minutes formatter                   *)
(* generate_golf_club_minutes, the JSON extraction of the "Extract &       *)
(* Format" step, and the Streamlit session (st.session_state) driven by    *)
(* the password form and the Restart / Transcribe / Extract / Narrative /  *)
(* Key-points buttons.                                                     *)
(*                                                                         *)
(* Text is modelled structurally.  A document is a sequence of lines, a    *)
(* line is the tuple of the parts an f-string concatenates (a literal and  *)
(* an interpolated value), and a model response is a sequence of lexical   *)
(* tokens.  Python values are tagged records, so that isinstance tests and *)
(* truthiness are computed as the code computes them.                      *)
(***************************************************************************)
EXTENDS Naturals, Sequences, FiniteSets, TLC

VARIABLES
    session_state,  \* st.session_state: a dict, DOMAIN = the keys present
    now,            \* the datetime.now() reading of the last formatter call
    response,       \* response.text of the extraction call under examination
    json_str,       \* the candidate the extraction step selected (json_str)
    outcome,        \* how the last handler ended
    shown,          \* what the last handler displayed with st.code
    last_op,        \* the last handler that ran
    prev,           \* st.session_state as it was when that handler started
    tmp_file,       \* whether the temporary audio file exists on disk
    remote_file,    \* the uploaded Gemini file: "none", "uploaded", "deleted"
    warned,         \* whether the last handler showed the st.warning of line 304
    user_password   \* the password the form last submitted

vars == <<session_state, now, response, json_str, outcome, shown, last_op,
          prev, tmp_file, remote_file, warned, user_password>>

(***************************************************************************)
(* Bounds of the model.                                                    *)
(***************************************************************************)
\* longest list a list field carries
MaxItems == 3
\* longest model response, in tokens
MaxLen == 5

SeqsUpTo(S, n) == UNION {[1..k -> S] : k \in 0..n}

(***************************************************************************)
(* Python values.                                                          *)
(***************************************************************************)
Str(x) == [t |-> "str", s |-> x, l |-> <<>>]
Lst(x) == [t |-> "list", s |-> "", l |-> x]
NoneVal == [t |-> "none", s |-> "", l |-> <<>>]
\* now.strftime("%d/%m/%Y @ %H:%M") and now.strftime("%d/%m/%Y")
DateTimeStr(clock) == [t |-> "strftime %d/%m/%Y @ %H:%M", s |-> clock, l |-> <<>>]
DateStr(clock) == [t |-> "strftime %d/%m/%Y", s |-> clock, l |-> <<>>]

\* bool(val)
Truthy(val) ==
    CASE val.t = "str" -> val.s # ""
      [] val.t = "list" -> val.l # <<>>
      [] val.t = "none" -> FALSE
      [] OTHER -> TRUE

\* str.strip() on the strings of the model: a whitespace-only string becomes ""
WhitespaceOnly == {"", " "}
Strip(x) == IF x \in WhitespaceOnly THEN "" ELSE x

\* A parsed JSON document: an object (dict) with its members, or an array.
Obj(f) == [type |-> "object", fields |-> f]
Arr == [type |-> "array", fields |-> <<>>]

NoFields == <<>>

\* structured.get(key) and structured.get(key, default)
DictGet(structured, key, default) ==
    IF key \in DOMAIN structured.fields THEN structured.fields[key] ELSE default

(***************************************************************************)
(* generate_golf_club_minutes                                              *)
(***************************************************************************)
Bullet == "* "
BulletStripped == "*"
Separator == "________________________________________"
Blank == <<>>

ScalarKeys == {"titleOfMeeting", "purposeOfMeeting", "locationOfMeeting",
               "meetingDateTime", "nextMeetingDateTime", "minutesPreparedBy",
               "dateCirculated", "circulation"}
AttendanceKeys == {"attendees", "apologies"}
SectionKeys == <<"training", "healthAndSafety", "finance",
                 "issuesRiskDiscipline", "teams", "projects", "competitions",
                 "comments", "anyOtherBusiness", "captainsClosingComments">>
SectionLabels == <<"1. Training (First Aid, Programmes, etc.)",
                   "2. Health and Safety",
                   "3. Finance (Status, Projections)",
                   "4. Issues, Risk, Discipline",
                   "5. Teams (Purcell, Bruen, etc.)",
                   "6. Projects (Defib, Simulator, 5 Year Vision)",
                   "7. Competitions (Weekly, Matchplays)",
                   "8. Comments",
                   "9. Any Other Business (AOB)",
                   "10. Captain's Closing Comments">>
HeaderKeys == <<"titleOfMeeting", "purposeOfMeeting", "locationOfMeeting",
                "meetingDateTime", "nextMeetingDateTime", "minutesPreparedBy",
                "dateCirculated", "circulation">>
HeaderLabels == <<"Title of Meeting: ", "Purpose of Meeting: ",
                  "Location of Meeting: ", "Date / Time of Meeting: ",
                  "Date / Time of Next Meeting: ", "Minutes Prepared By: ",
                  "Date Circulated: ", "Circulation: ">>
Keys == ScalarKeys \cup AttendanceKeys \cup {SectionKeys[i] : i \in 1..10}

\* get(val, default): a faulty variant that compares nothing with the sentinel
get_no_sentinel(val, default) == IF Truthy(val) THEN val ELSE default
\* get(val, default): a faulty variant that ignores the caller's default
get_fixed_default(val, default) ==
    IF Truthy(val) /\ val # Str("Not mentioned") THEN val
    ELSE Str("Not mentioned")
\* def get(val, default="Not mentioned")
get(val, default) ==
    IF Truthy(val) /\ val # Str("Not mentioned") THEN val ELSE default

\* the default each header field passes to get
HeaderDefault(key, clock) ==
    CASE key = "titleOfMeeting" -> Str("Lee Valley Mens Club Committee Meeting")
      [] key = "locationOfMeeting" -> Str("Lee Valley")
      [] key = "meetingDateTime" -> DateTimeStr(clock)
      [] key = "dateCirculated" -> DateStr(clock)
      [] OTHER -> Str("Not mentioned")

\* format_items: a faulty variant that renders only the first entry of a list
format_items_first(val) ==
    IF val.t = "list" /\ val.l # <<>>
    THEN << <<Bullet, Str(val.l[1])>> >>
    ELSE IF val.t = "str" /\ Strip(val.s) # "" /\ val.s # "Not mentioned"
    THEN << <<Bullet, val>> >>
    ELSE << <<Bullet, Str("Not mentioned")>> >>
\* format_items: a faulty variant that renders nothing for an empty value
format_items_blank(val) ==
    IF val.t = "list" /\ val.l # <<>>
    THEN [i \in 1..Len(val.l) |-> <<Bullet, Str(val.l[i])>>]
    ELSE IF val.t = "str" /\ Strip(val.s) # "" /\ val.s # "Not mentioned"
    THEN << <<Bullet, val>> >>
    ELSE <<>>
\* def format_items(val): the newline-terminated lines it returns
format_items(val) ==
    IF val.t = "list" /\ val.l # <<>>
    THEN [i \in 1..Len(val.l) |-> <<Bullet, Str(val.l[i])>>]
    ELSE IF val.t = "str" /\ Strip(val.s) # "" /\ val.s # "Not mentioned"
    THEN << <<Bullet, val>> >>
    ELSE << <<Bullet, Str("Not mentioned")>> >>

\* one header line of the template: f"{label}{value}"
HeaderLine(structured, i, clock) ==
    <<HeaderLabels[i],
      get(DictGet(structured, HeaderKeys[i], NoneVal),
          HeaderDefault(HeaderKeys[i], clock))>>

\* an identity block of the template: its label, {format_items(...)}, a
\* newline and the separator
Block(label, structured, key) ==
    << <<label>> >> \o format_items(DictGet(structured, key, Lst(<<>>)))
        \o <<Blank, <<Separator>> >>

\* a numbered section: a faulty variant that leaves out a section with no entries
Section_omit_empty(structured, i) ==
    IF Truthy(DictGet(structured, SectionKeys[i], Lst(<<>>)))
    THEN << <<SectionLabels[i]>> >>
            \o format_items(DictGet(structured, SectionKeys[i], Lst(<<>>)))
            \o <<Blank>> \o (IF i < 10 THEN << <<Separator>> >> ELSE <<>>)
    ELSE <<>>
\* a numbered section: a faulty variant that closes every section, the last
\* one included, with a separator
Section_rule_each(structured, i) ==
    << <<SectionLabels[i]>> >>
        \o format_items(DictGet(structured, SectionKeys[i], Lst(<<>>)))
        \o <<Blank, <<Separator>> >>
\* a numbered section of the template: its label, its body and a newline,
\* then the separator that precedes the next section
Section(structured, i) ==
    << <<SectionLabels[i]>> >>
        \o format_items(DictGet(structured, SectionKeys[i], Lst(<<>>)))
        \o <<Blank>> \o (IF i < 10 THEN << <<Separator>> >> ELSE <<>>)

RECURSIVE Sections(_, _)
Sections(structured, i) ==
    IF i > 10 THEN <<>>
    ELSE Section(structured, i) \o Sections(structured, i + 1)

\* the f-string of lines 60-110, as its lines
template(structured, clock) ==
    <<Blank>>
    \o [i \in 1..8 |-> HeaderLine(structured, i, clock)]
    \o <<Blank, <<Separator>> >>
    \o Block("ATTENDEES:", structured, "attendees")
    \o Block("APOLOGIES:", structured, "apologies")
    \o <<Blank, <<"MEETING MINUTES & ACTIONS">>, <<Separator>>, Blank>>
    \o Sections(structured, 1)

\* str.rstrip() on the last line of the text
RStripLine(line) ==
    IF Len(line) = 2 /\ line[2].t = "str" /\ Strip(line[2].s) = ""
    THEN <<BulletStripped>>
    ELSE line

RECURSIVE DropLeadingBlank(_)
DropLeadingBlank(lines) ==
    IF lines # <<>> /\ Head(lines) = Blank
    THEN DropLeadingBlank(Tail(lines)) ELSE lines

RECURSIVE DropTrailingBlank(_)
DropTrailingBlank(lines) ==
    IF lines # <<>> /\ lines[Len(lines)] = Blank
    THEN DropTrailingBlank(SubSeq(lines, 1, Len(lines) - 1)) ELSE lines

\* template.strip()
StripText(lines) ==
    LET body == DropTrailingBlank(DropLeadingBlank(lines))
    IN  IF body = <<>> THEN body
        ELSE SubSeq(body, 1, Len(body) - 1) \o <<RStripLine(body[Len(body)])>>

\* What a call of generate_golf_club_minutes does: it returns the text, or
\* structured.get raises AttributeError when structured is not a dict.
Returned(text) == [raised |-> FALSE, text |-> text]
AttributeError == [raised |-> TRUE, text |-> <<>>]

generate_golf_club_minutes(structured, clock) ==
    IF structured.type # "object" THEN AttributeError
    ELSE Returned(StripText(template(structured, clock)))

(***************************************************************************)
(* The extraction step's search for JSON in response.text                  *)
(*   re.search(r"```json\s*([\s\S]*?)\s*```|({[\s\S]*})", response.text)   *)
(* on a text of tokens: the opening fence with its language tag, the bare  *)
(* fence, the braces, white space, a JSON member, and a JSON array.        *)
(***************************************************************************)
\* the three backticks followed by json, and the three backticks alone
FenceJson == "<fence>json"
Fence == "<fence>"
LBrace == "{"
RBrace == "}"
Space == " "
Member == "\"titleOfMeeting\": \"Monthly Meeting\""
ArrayText == "[]"
Tokens == {FenceJson, Fence, LBrace, RBrace, Space, Member, ArrayText}
Texts == SeqsUpTo(Tokens, MaxLen)

\* the literal ``` of the pattern matches a bare fence and the first three
\* characters of ```json
StartsWithFence(tok) == tok \in {Fence, FenceJson}

RECURSIVE DropLeadingSpace(_)
DropLeadingSpace(text) ==
    IF text # <<>> /\ Head(text) = Space
    THEN DropLeadingSpace(Tail(text)) ELSE text
RECURSIVE DropTrailingSpace(_)
DropTrailingSpace(text) ==
    IF text # <<>> /\ text[Len(text)] = Space
    THEN DropTrailingSpace(SubSeq(text, 1, Len(text) - 1)) ELSE text
\* str.strip() on a text; also what \s* ... \s* leave of a fenced interior
Trim(text) == DropTrailingSpace(DropLeadingSpace(text))

\* a group of the match: whether it took part and what it captured
Group(text) == [matched |-> TRUE, text |-> text]
NoGroup == [matched |-> FALSE, text |-> <<>>]
NoMatch == [found |-> FALSE, g1 |-> NoGroup, g2 |-> NoGroup]

\* first alternative at position i: ```json \s* (lazy interior) \s* ```
FencedAt(text, i) ==
    IF text[i] = FenceJson
          /\ \E k \in (i + 1)..Len(text) : StartsWithFence(text[k])
    THEN LET close == CHOOSE k \in (i + 1)..Len(text) :
                        /\ StartsWithFence(text[k])
                        /\ \A j \in (i + 1)..(k - 1) : ~StartsWithFence(text[j])
         IN  [found |-> TRUE,
              g1 |-> Group(Trim(SubSeq(text, i + 1, close - 1))),
              g2 |-> NoGroup]
    ELSE NoMatch

\* second alternative: a faulty variant that accepts an unclosed brace
BracedAt_unclosed(text, i) ==
    IF text[i] = LBrace
    THEN LET last == IF \E j \in (i + 1)..Len(text) : text[j] = RBrace
                     THEN CHOOSE j \in (i + 1)..Len(text) :
                            /\ text[j] = RBrace
                            /\ \A m \in (j + 1)..Len(text) : text[m] # RBrace
                     ELSE Len(text)
         IN  [found |-> TRUE, g1 |-> NoGroup,
              g2 |-> Group(SubSeq(text, i, last))]
    ELSE NoMatch
\* second alternative at position i: { (greedy anything) }
BracedAt(text, i) ==
    IF text[i] = LBrace /\ \E j \in (i + 1)..Len(text) : text[j] = RBrace
    THEN LET last == CHOOSE j \in (i + 1)..Len(text) :
                        /\ text[j] = RBrace
                        /\ \A m \in (j + 1)..Len(text) : text[m] # RBrace
         IN  [found |-> TRUE, g1 |-> NoGroup,
              g2 |-> Group(SubSeq(text, i, last))]
    ELSE NoMatch

\* the alternation at position i: the first alternative, else the second
MatchAt(text, i) ==
    IF FencedAt(text, i).found THEN FencedAt(text, i) ELSE BracedAt(text, i)

\* re.search: the match at the leftmost position where one exists
re_search(text) ==
    IF \E i \in 1..Len(text) : MatchAt(text, i).found
    THEN MatchAt(text, CHOOSE i \in 1..Len(text) :
                         /\ MatchAt(text, i).found
                         /\ \A j \in 1..(i - 1) : ~MatchAt(text, j).found)
    ELSE NoMatch

\* json_str = json_text_match.group(1) or json_text_match.group(2):
\* group(1) when it took part and is not empty, else group(2), which is
\* None when the second alternative took no part
SelectGroup(match) ==
    IF match.g1.matched /\ match.g1.text # <<>> THEN match.g1 ELSE match.g2

\* json.loads on a stripped candidate: white space between tokens is
\* insignificant; an object with no member or one member and an array are
\* documents, anything else is a JSONDecodeError
Parsed(value) == [ok |-> TRUE, value |-> value]
JSONDecodeError == [ok |-> FALSE, value |-> Arr]
MonthlyMeeting == [k \in {"titleOfMeeting"} |-> Str("Monthly Meeting")]
json_loads(text) ==
    LET compact == SelectSeq(text, LAMBDA tok : tok # Space)
    IN  CASE compact = <<LBrace, RBrace>> -> Parsed(Obj(NoFields))
          [] compact = <<LBrace, Member, RBrace>> -> Parsed(Obj(MonthlyMeeting))
          [] compact = <<ArrayText>> -> Parsed(Arr)
          [] OTHER -> JSONDecodeError

\* Lines 356-371 up to the parse: which branch is taken, with the candidate
\* and what st.code shows.
\*   "no_match"   the else branch of `if json_text_match`
\*   "none"       json_str is None and json_str.strip() raises AttributeError
\*   "decode"     json.loads raises JSONDecodeError
\*   "parsed"     json.loads returns
ExtractJson(text) ==
    LET match == re_search(text)
        group == SelectGroup(match)
    IN  IF ~match.found
        THEN [kind |-> "no_match", json_str |-> NoGroup, value |-> Arr,
              shown |-> text]
        ELSE IF ~group.matched
        THEN [kind |-> "none", json_str |-> NoGroup, value |-> Arr,
              shown |-> <<>>]
        ELSE IF ~json_loads(Trim(group.text)).ok
        THEN [kind |-> "decode", json_str |-> group, value |-> Arr,
              shown |-> Trim(group.text)]
        ELSE [kind |-> "parsed", json_str |-> group,
              value |-> json_loads(Trim(group.text)).value, shown |-> <<>>]

(***************************************************************************)
(* The inputs of the formatter.                                            *)
(***************************************************************************)
Clock == {"clock1", "clock2"}
NoClock == "none"

Strings == {"", " ", "Not mentioned", "NOT MENTIONED", "Fix the mower"}
Values == {Str(x) : x \in Strings} \cup {Lst(x) : x \in SeqsUpTo(Strings, MaxItems)}

FullFields ==
    [k \in Keys |-> IF k \in ScalarKeys THEN Str("Fix the mower")
                    ELSE Lst(<<"Fix the mower">>)]
Put(f, k, v) == [x \in DOMAIN f \cup {k} |-> IF x = k THEN v ELSE f[x]]
Drop(f, k) == [x \in DOMAIN f \ {k} |-> f[x]]

\* StructuredRecords: the empty mapping, a mapping in which every field
\* carries data, and each of the two with one field set to any value or
\* left out.
Records ==
    {Obj(NoFields), Obj(FullFields)}
    \cup {Obj(Put(f, k, v)) : f \in {NoFields, FullFields}, k \in Keys, v \in Values}
    \cup {Obj(Drop(FullFields, k)) : k \in Keys}

(***************************************************************************)
(* The formatter on its own: the record is in the session (line 361) and   *)
(* lines 363-364 format it.                                                *)
(***************************************************************************)
NoText == <<>>
NoPassword == ""
NoSession == <<>>

InitFormat ==
    /\ \E r \in Records :
         session_state = [k \in {"password_verified", "transcript", "structured"} |->
                            CASE k = "password_verified" -> TRUE
                              [] k = "transcript" -> "transcript1"
                              [] OTHER -> r]
    /\ now = NoClock
    /\ response = NoText
    /\ json_str = NoGroup
    /\ outcome = "none"
    /\ shown = NoText
    /\ last_op = "none"
    /\ prev = NoSession
    /\ tmp_file = FALSE
    /\ remote_file = "none"
    /\ warned = FALSE
    /\ user_password = NoPassword

\* minutes_text = generate_golf_club_minutes(structured);
\* st.session_state["minutes"] = minutes_text
FormatMinutes ==
    /\ last_op = "none"
    /\ "structured" \in DOMAIN session_state
    /\ \E clock \in Clock :
         LET call == generate_golf_club_minutes(session_state["structured"], clock)
         IN  /\ now' = clock
             /\ IF call.raised
                THEN /\ session_state' = session_state
                     /\ outcome' = "error"
                ELSE /\ session_state' = Put(session_state, "minutes", call.text)
                     /\ outcome' = "ok"
    /\ last_op' = "format"
    /\ prev' = session_state
    /\ UNCHANGED <<response, json_str, shown, tmp_file, remote_file, warned, user_password>>

NextFormat == FormatMinutes

FormatSpec == InitFormat /\ [][NextFormat]_vars

(***************************************************************************)
(* The "Extract & Format Meeting Minutes" handler, lines 314-374.          *)
(***************************************************************************)
\* model.generate_content (or response.text) raised
CallFailed == [kind |-> "call_failed", json_str |-> NoGroup, value |-> Arr,
               shown |-> NoText]

Ended(session, how, found) ==
    [session |-> session, outcome |-> how, json_str |-> found.json_str,
     shown |-> found.shown, formatted |-> FALSE]

\* What the handler does with what the search and the parse found.  The
\* outcomes: "ok" (st.success), "no_json_found" (line 370),
\* "json_decode_error" (line 367), "error" (the except of line 373).
ExtractionStep(session, found, clock) ==
    CASE found.kind = "call_failed" -> Ended(session, "error", found)
      [] found.kind = "no_match" -> Ended(session, "no_json_found", found)
      [] found.kind = "none" -> Ended(session, "error", found)
      [] found.kind = "decode" -> Ended(session, "json_decode_error", found)
      [] OTHER ->
            LET stored == Put(session, "structured", found.value)
                call == generate_golf_club_minutes(found.value, clock)
            IN  IF call.raised
                THEN [Ended(stored, "error", found) EXCEPT !.formatted = TRUE]
                ELSE [Ended(Put(stored, "minutes", call.text), "ok", found)
                        EXCEPT !.formatted = TRUE]

(***************************************************************************)
(* The extraction step on its own: a response text and the session it      *)
(* arrives in are drawn, and the handler runs on them.                     *)
(***************************************************************************)
Unlocked == [k \in {"password_verified", "transcript"} |->
               IF k = "transcript" THEN "transcript1" ELSE TRUE]
EarlierMinutes ==
    Put(Put(Unlocked, "structured", Obj(MonthlyMeeting)), "minutes",
        generate_golf_club_minutes(Obj(MonthlyMeeting), "clock1").text)

InitExtract ==
    /\ session_state \in {Unlocked, EarlierMinutes}
    /\ response \in Texts
    /\ now = NoClock
    /\ json_str = NoGroup
    /\ outcome = "none"
    /\ shown = NoText
    /\ last_op = "none"
    /\ prev = NoSession
    /\ tmp_file = FALSE
    /\ remote_file = "none"
    /\ warned = FALSE
    /\ user_password = NoPassword

ExtractStep ==
    /\ last_op = "none"
    /\ "transcript" \in DOMAIN session_state
    /\ \E clock \in Clock :
         LET end == ExtractionStep(session_state, ExtractJson(response), clock)
         IN  /\ session_state' = end.session
             /\ outcome' = end.outcome
             /\ json_str' = end.json_str
             /\ shown' = end.shown
             /\ now' = IF end.formatted THEN clock ELSE now
    /\ last_op' = "extract"
    /\ prev' = session_state
    /\ UNCHANGED <<response, tmp_file, remote_file, warned, user_password>>

NextExtract == ExtractStep

ExtractSpec == InitExtract /\ [][NextExtract]_vars

(***************************************************************************)
(* The session: the script's handlers, one action per button.              *)
(***************************************************************************)
ExpectedPassword == "secret"
Passwords == {"secret", "guess"}
Transcripts == {"transcript1", "transcript2"}
Summaries == {"summary1", "summary2"}
SessionKeys == {"transcript", "structured", "minutes", "narrative",
                "keypoints_summary"}

\* lines 174-175
Init ==
    /\ session_state = [k \in {"password_verified"} |-> FALSE]
    /\ now = NoClock
    /\ response = NoText
    /\ json_str = NoGroup
    /\ outcome = "none"
    /\ shown = NoText
    /\ last_op = "none"
    /\ prev = NoSession
    /\ tmp_file = FALSE
    /\ remote_file = "none"
    /\ warned = FALSE
    /\ user_password = NoPassword

\* the gate: a faulty variant that lets every run through
Gate_open == TRUE
\* lines 177-195: the script runs past st.stop() only when the flag is set
Gate == session_state["password_verified"]

\* lines 177-195: the password form
SubmitPassword ==
    /\ ~Gate
    /\ \E typed \in Passwords :
         /\ user_password' = typed
         /\ IF typed = ExpectedPassword
            THEN /\ session_state' = Put(session_state, "password_verified", TRUE)
                 /\ outcome' = "ok"
            ELSE /\ session_state' = session_state
                 /\ outcome' = "error"
    /\ last_op' = "password"
    /\ prev' = session_state
    /\ UNCHANGED <<now, response, json_str, shown, tmp_file, remote_file, warned>>

\* keys_to_clear: a faulty variant that forgets the minutes
keys_to_clear_short == {"transcript", "structured", "narrative", "keypoints_summary"}
\* line 203
keys_to_clear == {"transcript", "structured", "minutes", "narrative",
                  "keypoints_summary"}

\* lines 202-207: Restart Session
Restart ==
    /\ Gate
    /\ session_state' = [k \in DOMAIN session_state \ keys_to_clear |->
                            session_state[k]]
    /\ outcome' = "ok"
    /\ last_op' = "restart"
    /\ prev' = session_state
    /\ UNCHANGED <<now, response, json_str, shown, tmp_file, remote_file, warned, user_password>>

\* the finally block: a faulty variant that never calls delete_file
FinallyCleanup_no_delete(uploaded, delete_ok, remove_ok) ==
    [remote |-> IF uploaded THEN "uploaded" ELSE "none",
     warned |-> FALSE,
     tmp |-> ~remove_ok]
\* lines 298-306, the finally block: delete_file on the uploaded copy when
\* there is one, with a warning when it raises, then os.remove on the
\* temporary file, which may raise too
FinallyCleanup(uploaded, delete_ok, remove_ok) ==
    [remote |-> IF ~uploaded THEN "none"
                ELSE IF delete_ok THEN "deleted" ELSE "uploaded",
     warned |-> uploaded /\ ~delete_ok,
     tmp |-> ~remove_ok]

\* lines 260-306: Transcribe & Analyse.  The temporary file is created and
\* written outside the try; upload_file, generate_content, delete_file and
\* os.remove may each raise.  The outcomes: "ok", "error" (the except of
\* line 296), "uncaught" (tmp_file.write raised), "cleanup_raised"
\* (os.remove raised in the finally block).
Transcribe ==
    /\ Gate
    /\ \E write_ok, upload_ok, generate_ok, delete_ok, remove_ok \in BOOLEAN,
          text \in Transcripts :
         IF ~write_ok
         THEN \* tmp_file.write raises: NamedTemporaryFile(delete=False) has
              \* created the file and nothing removes it
              /\ tmp_file' = TRUE
              /\ remote_file' = remote_file
              /\ warned' = FALSE
              /\ session_state' = session_state
              /\ outcome' = "uncaught"
         ELSE LET end == FinallyCleanup(upload_ok, delete_ok, remove_ok)
              IN  /\ tmp_file' = end.tmp
                  /\ remote_file' = end.remote
                  /\ warned' = end.warned
                  /\ session_state' =
                        IF upload_ok /\ generate_ok
                        THEN Put(session_state, "transcript", text)
                        ELSE session_state
                  /\ outcome' = IF ~remove_ok THEN "cleanup_raised"
                                ELSE IF upload_ok /\ generate_ok THEN "ok"
                                ELSE "error"
    /\ last_op' = "transcribe"
    /\ prev' = session_state
    /\ UNCHANGED <<now, response, json_str, shown, user_password>>

\* what the search and the parse can find in a response of the model, with
\* the texts left out
WithoutText(found) == [found EXCEPT !.json_str = NoGroup, !.shown = NoText]
ExtractOutcomes == {WithoutText(ExtractJson(text)) : text \in Texts} \cup {CallFailed}

\* lines 314-374: Extract & Format Meeting Minutes, on any response
Extract ==
    /\ Gate
    /\ "transcript" \in DOMAIN session_state
    /\ \E found \in ExtractOutcomes, clock \in Clock :
         LET end == ExtractionStep(session_state, found, clock)
         IN  /\ session_state' = end.session
             /\ outcome' = end.outcome
             /\ now' = IF end.formatted THEN clock ELSE now
    /\ last_op' = "extract"
    /\ prev' = session_state
    /\ UNCHANGED <<response, json_str, shown, tmp_file, remote_file, warned, user_password>>

\* lines 402-417: Generate Narrative Summary
Narrative ==
    /\ Gate
    /\ "transcript" \in DOMAIN session_state
    /\ \E call_ok \in BOOLEAN, text \in Summaries :
         IF call_ok
         THEN /\ session_state' = Put(session_state, "narrative", text)
              /\ outcome' = "ok"
         ELSE /\ session_state' = session_state
              /\ outcome' = "error"
    /\ last_op' = "narrative"
    /\ prev' = session_state
    /\ UNCHANGED <<now, response, json_str, shown, tmp_file, remote_file, warned, user_password>>

\* lines 420-439: Generate Key Points & Actions
KeyPoints ==
    /\ Gate
    /\ "transcript" \in DOMAIN session_state
    /\ \E call_ok \in BOOLEAN, text \in Summaries :
         IF call_ok
         THEN /\ session_state' = Put(session_state, "keypoints_summary", text)
              /\ outcome' = "ok"
         ELSE /\ session_state' = session_state
              /\ outcome' = "error"
    /\ last_op' = "keypoints"
    /\ prev' = session_state
    /\ UNCHANGED <<now, response, json_str, shown, tmp_file, remote_file, warned, user_password>>

Next ==
    \/ SubmitPassword
    \/ Restart
    \/ Transcribe
    \/ Extract
    \/ Narrative
    \/ KeyPoints

Spec == Init /\ [][Next]_vars

(***************************************************************************)
(* Reading a rendered document.                                            *)
(***************************************************************************)
Formatted == last_op = "format" /\ outcome = "ok"
TheRecord == session_state["structured"]
TheMinutes == session_state["minutes"]

IsBulletLine(line) == Len(line) = 2 /\ line[1] = Bullet
IsRule(line) == line = <<Separator>>
\* the fixed text of a line that is neither a bullet, blank, nor a rule
IsFixedLine(line) ==
    /\ line # Blank
    /\ ~IsRule(line)
    /\ ~IsBulletLine(line)
    /\ line # <<BulletStripped>>
FixedTexts(text) ==
    LET kept == SelectSeq(text, IsFixedLine)
    IN  [i \in 1..Len(kept) |-> kept[i][1]]

\* the lines under a label, up to the next blank line or the end of the text
RECURSIVE UpToBlank(_)
UpToBlank(lines) ==
    IF lines = <<>> \/ Head(lines) = Blank THEN <<>>
    ELSE <<Head(lines)>> \o UpToBlank(Tail(lines))
BodyUnder(text, label) ==
    LET at == CHOOSE i \in 1..Len(text) : text[i] = <<label>>
    IN  UpToBlank(SubSeq(text, at + 1, Len(text)))

ListKeys == AttendanceKeys \cup {SectionKeys[i] : i \in 1..10}
LabelOf(key) ==
    CASE key = "attendees" -> "ATTENDEES:"
      [] key = "apologies" -> "APOLOGIES:"
      [] OTHER -> SectionLabels[CHOOSE i \in 1..10 : SectionKeys[i] = key]
BodyOf(text, key) == BodyUnder(text, LabelOf(key))

\* "absent" as the specification defines it for a string: empty, or the
\* sentinel in any letter case
Sentinels == {"Not mentioned", "NOT MENTIONED"}
SpecAbsentForms == {NoneVal, Str(""), Str("Not mentioned"), Str("NOT MENTIONED")}
\* the forms the code takes for absent: missing, "", "Not mentioned"
CodeAbsentForms == {NoneVal, Str(""), Str("Not mentioned")}
\* the record with one field in a given form (NoneVal: the key left out)
WithForm(rec, key, form) ==
    IF form = NoneVal THEN Obj(Drop(rec.fields, key))
    ELSE Obj(Put(rec.fields, key, form))
HeaderIndex(key) == CHOOSE i \in 1..8 : HeaderKeys[i] = key
RenderedHeader(rec, key, clock) ==
    generate_golf_club_minutes(rec, clock).text[HeaderIndex(key)]

(***************************************************************************)
(* C1: for every record (the empty mapping included) the formatter returns *)
(* without raising, and the fixed lines of its text are exactly the eight  *)
(* header labels, ATTENDEES:, APOLOGIES:, the banner and the ten numbered  *)
(* section labels, each once and in that order.                            *)
(***************************************************************************)
C1_Shape ==
    last_op = "format" =>
        /\ outcome = "ok"
        /\ "minutes" \in DOMAIN session_state
        /\ FixedTexts(TheMinutes) =
              HeaderLabels
              \o <<"ATTENDEES:", "APOLOGIES:", "MEETING MINUTES & ACTIONS">>
              \o SectionLabels
        /\ \A i \in 1..8 : TheMinutes[i][1] = HeaderLabels[i]

C1_Witness ==
    /\ Formatted
    /\ TheRecord = Obj(NoFields)
    /\ Len(FixedTexts(TheMinutes)) = 21

(***************************************************************************)
(* C2 as claimed: for every scalar field whose value is "", "Not           *)
(* mentioned", "NOT MENTIONED" or missing, the header line rendered is the *)
(* one rendered for each of the other three forms, clock and other fields  *)
(* fixed.                                                                  *)
(***************************************************************************)
C2_Original ==
    Formatted =>
        \A key \in ScalarKeys :
            DictGet(TheRecord, key, NoneVal) \in SpecAbsentForms =>
                \A form \in SpecAbsentForms :
                    TheMinutes[HeaderIndex(key)] =
                        RenderedHeader(WithForm(TheRecord, key, form), key, now)

(***************************************************************************)
(* C2 amended: for every scalar field whose value is "", "Not mentioned"   *)
(* or missing, the header line rendered is the one rendered for each of    *)
(* the other two forms, clock and other fields fixed.                      *)
(***************************************************************************)
C2_AbsenceNormalization ==
    Formatted =>
        \A key \in ScalarKeys :
            DictGet(TheRecord, key, NoneVal) \in CodeAbsentForms =>
                \A form \in CodeAbsentForms :
                    TheMinutes[HeaderIndex(key)] =
                        RenderedHeader(WithForm(TheRecord, key, form), key, now)

C2_Witness ==
    /\ Formatted
    /\ DictGet(TheRecord, "titleOfMeeting", NoneVal) = Str("Not mentioned")
    /\ TheMinutes[1] = RenderedHeader(WithForm(TheRecord, "titleOfMeeting", NoneVal),
                                      "titleOfMeeting", now)
    /\ TheMinutes[1] # RenderedHeader(WithForm(TheRecord, "titleOfMeeting",
                                               Str("NOT MENTIONED")),
                                      "titleOfMeeting", now)

(***************************************************************************)
(* C3 as claimed: an absent titleOfMeeting renders the committee name, an  *)
(* absent locationOfMeeting the venue name, an absent purposeOfMeeting,    *)
(* nextMeetingDateTime, minutesPreparedBy or circulation the empty string; *)
(* a present value is rendered verbatim.                                   *)
(***************************************************************************)
PlainScalarKeys == {"purposeOfMeeting", "nextMeetingDateTime",
                    "minutesPreparedBy", "circulation"}
C3_Original ==
    Formatted =>
        \A key \in PlainScalarKeys \cup {"titleOfMeeting", "locationOfMeeting"} :
            LET val == DictGet(TheRecord, key, NoneVal)
                out == TheMinutes[HeaderIndex(key)][2]
            IN  val.t # "list" =>
                  IF val \in SpecAbsentForms
                  THEN out = (CASE key = "titleOfMeeting" ->
                                     Str("Lee Valley Mens Club Committee Meeting")
                                [] key = "locationOfMeeting" -> Str("Lee Valley")
                                [] OTHER -> Str(""))
                  ELSE out = val

(***************************************************************************)
(* C3 amended: a titleOfMeeting that is missing, "" or exactly "Not        *)
(* mentioned" renders the committee name, such a locationOfMeeting the     *)
(* venue name, and such a purposeOfMeeting, nextMeetingDateTime,           *)
(* minutesPreparedBy or circulation the placeholder "Not mentioned"; any   *)
(* other string, "NOT MENTIONED" included, is rendered verbatim.           *)
(***************************************************************************)
C3_ScalarDefaults ==
    Formatted =>
        \A key \in PlainScalarKeys \cup {"titleOfMeeting", "locationOfMeeting"} :
            LET val == DictGet(TheRecord, key, NoneVal)
                out == TheMinutes[HeaderIndex(key)][2]
            IN  val.t # "list" =>
                  IF val \in CodeAbsentForms
                  THEN out = (CASE key = "titleOfMeeting" ->
                                     Str("Lee Valley Mens Club Committee Meeting")
                                [] key = "locationOfMeeting" -> Str("Lee Valley")
                                [] OTHER -> Str("Not mentioned"))
                  ELSE out = val

C3_Witness ==
    /\ Formatted
    /\ "purposeOfMeeting" \notin DOMAIN TheRecord.fields
    /\ "titleOfMeeting" \notin DOMAIN TheRecord.fields
    /\ TheMinutes[1] = <<"Title of Meeting: ",
                         Str("Lee Valley Mens Club Committee Meeting")>>
    /\ TheMinutes[2] = <<"Purpose of Meeting: ", Str("Not mentioned")>>
    /\ DictGet(TheRecord, "circulation", NoneVal) = Str("Fix the mower")
    /\ TheMinutes[8] = <<"Circulation: ", Str("Fix the mower")>>

(***************************************************************************)
(* C4 as claimed: for every list field given a list of strings, the body   *)
(* rendered is one bullet line per entry that is neither empty,            *)
(* whitespace-only, nor "not mentioned" in any letter case, in input       *)
(* order, and the other entries produce no line (stated here for the      *)
(* non-empty lists; the empty list is C5's case).                          *)
(***************************************************************************)
Kept(entry) == Strip(entry) # "" /\ entry \notin Sentinels
BulletsOf(entries) == [i \in 1..Len(entries) |-> <<Bullet, Str(entries[i])>>]
C4_Original ==
    Formatted =>
        \A key \in ListKeys :
            LET val == DictGet(TheRecord, key, NoneVal)
            IN  (val.t = "list" /\ val.l # <<>>) =>
                  BodyOf(TheMinutes, key) = BulletsOf(SelectSeq(val.l, Kept))

(***************************************************************************)
(* C4 amended: for every list field given a non-empty list of strings, the *)
(* body rendered is one bullet line per entry, in input order, and no      *)
(* entry is filtered out: an empty, whitespace-only or "Not mentioned"     *)
(* entry has its bullet line too (the last line of the document is         *)
(* right-trimmed by the final strip).                                      *)
(***************************************************************************)
C4_ListRendering ==
    Formatted =>
        \A key \in ListKeys :
            LET val == DictGet(TheRecord, key, NoneVal)
                body == BodyOf(TheMinutes, key)
            IN  (val.t = "list" /\ val.l # <<>>) =>
                  /\ Len(body) = Len(val.l)
                  /\ \A i \in 1..Len(body) :
                        \/ body[i] = <<Bullet, Str(val.l[i])>>
                        \/ /\ key = SectionKeys[10]
                           /\ i = Len(body)
                           /\ Strip(val.l[i]) = ""
                           /\ body[i] = <<BulletStripped>>

C4_Witness ==
    /\ Formatted
    /\ DictGet(TheRecord, "finance", NoneVal) = Lst(<<"Fix the mower", "Not mentioned", "">>)
    /\ BodyOf(TheMinutes, "finance") =
          << <<Bullet, Str("Fix the mower")>>, <<Bullet, Str("Not mentioned")>>,
             <<Bullet, Str("")>> >>

(***************************************************************************)
(* C5 as claimed: an absent or empty attendees or apologies list renders   *)
(* the single bullet "None listed", and an absent or empty discussion list *)
(* renders an empty body.                                                  *)
(***************************************************************************)
EmptyForms == {NoneVal, Lst(<<>>)}
C5_Original ==
    Formatted =>
        \A key \in ListKeys :
            DictGet(TheRecord, key, NoneVal) \in EmptyForms =>
                BodyOf(TheMinutes, key) =
                    IF key \in AttendanceKeys
                    THEN << <<Bullet, Str("None listed")>> >>
                    ELSE <<>>

(***************************************************************************)
(* C5 amended: an absent or empty attendees, apologies or discussion list  *)
(* renders the single bullet "Not mentioned" as the sole content under its *)
(* label.                                                                  *)
(***************************************************************************)
C5_EmptyListRendering ==
    Formatted =>
        \A key \in ListKeys :
            DictGet(TheRecord, key, NoneVal) \in EmptyForms =>
                BodyOf(TheMinutes, key) = << <<Bullet, Str("Not mentioned")>> >>

C5_Witness ==
    /\ Formatted
    /\ "attendees" \notin DOMAIN TheRecord.fields
    /\ DictGet(TheRecord, "finance", NoneVal) = Lst(<<>>)
    /\ BodyOf(TheMinutes, "attendees") = << <<Bullet, Str("Not mentioned")>> >>
    /\ BodyOf(TheMinutes, "finance") = << <<Bullet, Str("Not mentioned")>> >>

(***************************************************************************)
(* Reading a response text.                                                *)
(***************************************************************************)
Extracted == last_op = "extract"
\* an opening fence tagged json with a closing fence after it
OpensBlock(text, i) ==
    text[i] = FenceJson /\ \E k \in (i + 1)..Len(text) : StartsWithFence(text[k])
HasFencedBlock(text) == \E i \in 1..Len(text) : OpensBlock(text, i)
FirstFencedInterior(text) ==
    LET open == CHOOSE i \in 1..Len(text) :
                    OpensBlock(text, i) /\ \A j \in 1..(i - 1) : ~OpensBlock(text, j)
        close == CHOOSE k \in (open + 1)..Len(text) :
                    /\ StartsWithFence(text[k])
                    /\ \A j \in (open + 1)..(k - 1) : ~StartsWithFence(text[j])
    IN  Trim(SubSeq(text, open + 1, close - 1))
\* a { with a } somewhere after it
HasBracePair(text) ==
    \E i \in 1..Len(text) : \E j \in (i + 1)..Len(text) :
        text[i] = LBrace /\ text[j] = RBrace
\* the text the match captured, whichever group took part
CandidateOf(match) == IF match.g1.matched THEN match.g1.text ELSE match.g2.text

(***************************************************************************)
(* C6 as claimed: whenever the response holds a fenced json block, the     *)
(* candidate chosen is the interior of the first fenced block, wherever    *)
(* braces occur in the text, before the fence included (stated here for    *)
(* blocks whose interior is not empty).                                    *)
(***************************************************************************)
C6_FencePriority ==
    (Extracted /\ HasFencedBlock(response) /\ FirstFencedInterior(response) # <<>>) =>
        json_str = Group(FirstFencedInterior(response))

(***************************************************************************)
(* C7 as claimed: for every response text with no { ... } pair the step    *)
(* ends with the no-valid-JSON error, the raw response shown verbatim, and *)
(* the session as it was.                                                  *)
(***************************************************************************)
C7_Original ==
    (Extracted /\ ~HasBracePair(response)) =>
        /\ outcome = "no_json_found"
        /\ shown = response
        /\ session_state = prev

(***************************************************************************)
(* C7 amended: for every response text with neither a fenced json block    *)
(* nor a { ... } pair the step ends with the no-valid-JSON error, the raw  *)
(* response shown verbatim, and the session as it was.                     *)
(***************************************************************************)
C7_NoStructuredDataFound ==
    (Extracted /\ ~HasBracePair(response) /\ ~HasFencedBlock(response)) =>
        /\ outcome = "no_json_found"
        /\ shown = response
        /\ session_state = prev

C7_Witness ==
    /\ Extracted
    /\ response = <<RBrace, Member, LBrace, FenceJson>>
    /\ prev = EarlierMinutes
    /\ outcome = "no_json_found"
    /\ shown = response
    /\ session_state = EarlierMinutes

(***************************************************************************)
(* C8 as claimed: for every response text in which the search finds a      *)
(* candidate that does not parse as JSON, the step ends with the           *)
(* failed-to-parse error, the candidate text shown, no minutes generated   *)
(* and the session as it was.                                              *)
(***************************************************************************)
C8_MalformedStructuredData ==
    (/\ Extracted
     /\ re_search(response).found
     /\ ~json_loads(Trim(CandidateOf(re_search(response)))).ok) =>
        /\ outcome = "json_decode_error"
        /\ shown = Trim(CandidateOf(re_search(response)))
        /\ session_state = prev

(***************************************************************************)
(* C9 as claimed: whenever a transcribe, extract, narrative or key-points  *)
(* operation fails, each of transcript, structured, minutes, narrative and *)
(* keypoints_summary is in the session exactly as it was before the        *)
(* operation.                                                              *)
(***************************************************************************)
Failures == {"error", "uncaught", "no_json_found", "json_decode_error"}
SameEntry(key) ==
    /\ key \in DOMAIN session_state <=> key \in DOMAIN prev
    /\ key \in DOMAIN session_state => session_state[key] = prev[key]
C9_FailurePreservesSession ==
    (/\ last_op \in {"transcribe", "extract", "narrative", "keypoints"}
     /\ outcome \in Failures) =>
        \A key \in SessionKeys : SameEntry(key)

(***************************************************************************)
(* C10: after Restart Session none of transcript, structured, minutes,     *)
(* narrative and keypoints_summary is in the session, so no reset leaves   *)
(* some of the five present and others cleared.                            *)
(***************************************************************************)
C10_ResetClearsAll ==
    last_op = "restart" => DOMAIN session_state \cap SessionKeys = {}

C10_Witness ==
    /\ last_op = "restart"
    /\ SessionKeys \subseteq DOMAIN prev
    /\ DOMAIN session_state = {"password_verified"}

(***************************************************************************)
(* C11 as claimed: once a transcription that wrote the temporary audio     *)
(* file has finished, whatever failed, the local temporary file no longer  *)
(* exists, and a remote copy that was uploaded has been deleted.           *)
(***************************************************************************)
Transcribed == last_op = "transcribe" /\ outcome # "uncaught"
Skeleton(text) ==
    LET kept == SelectSeq(text, LAMBDA line : IsRule(line) \/ IsFixedLine(line))
    IN  [i \in 1..Len(kept) |-> kept[i][1]]
Rules(text) == Len(SelectSeq(text, IsRule))
\* the part of every document that precedes the numbered sections
Preamble ==
    HeaderLabels
    \o <<Separator, "ATTENDEES:", Separator, "APOLOGIES:", Separator,
         "MEETING MINUTES & ACTIONS", Separator>>
RECURSIVE LabelsWithRules(_, _)
\* the labels of sections i..10, a separator after each of those up to
\* section closed
LabelsWithRules(i, closed) ==
    IF i > 10 THEN <<>>
    ELSE <<SectionLabels[i]>>
            \o (IF i <= closed THEN <<Separator>> ELSE <<>>)
            \o LabelsWithRules(i + 1, closed)

(***************************************************************************)
(* C12 as claimed: in the formatter's output each of the 10 numbered       *)
(* sections is preceded by its label and followed by a separator line, so  *)
(* the document has one separator after the header block, the attendees    *)
(* block, the apologies block, the banner and every section 1 through 10.  *)
(***************************************************************************)
C12_Original ==
    Formatted =>
        /\ Skeleton(TheMinutes) = Preamble \o LabelsWithRules(1, 10)
        /\ Rules(TheMinutes) = 14

(***************************************************************************)
(* C12 amended: in the formatter's output each of the 10 numbered sections *)
(* is preceded by its label, and the document has one separator after the  *)
(* header block, the attendees block, the apologies block, the banner and  *)
(* every section 1 through 9; section 10 ends the document and no          *)
(* separator follows it.                                                   *)
(***************************************************************************)
C12_DocumentAssembly ==
    Formatted =>
        /\ Skeleton(TheMinutes) = Preamble \o LabelsWithRules(1, 9)
        /\ Rules(TheMinutes) = 13
        /\ ~IsRule(TheMinutes[Len(TheMinutes)])

C12_Witness ==
    /\ Formatted
    /\ DictGet(TheRecord, "captainsClosingComments", NoneVal).t = "list"
    /\ IsBulletLine(TheMinutes[Len(TheMinutes)])
    /\ Rules(TheMinutes) = 13
    /\ \E i \in 1..Len(TheMinutes) - 1 :
          TheMinutes[i] = <<SectionLabels[10]>>

\* the stored minutes are what the formatter returns for the stored record,
\* at the clock reading of some run
MinutesOfStructured ==
    /\ "structured" \in DOMAIN session_state
    /\ "minutes" \in DOMAIN session_state
    /\ \E clock \in Clock :
          LET call == generate_golf_club_minutes(session_state["structured"], clock)
          IN  ~call.raised /\ call.text = session_state["minutes"]
StructuredUpdated ==
    /\ "structured" \in DOMAIN session_state
    /\ "structured" \in DOMAIN prev => session_state["structured"] # prev["structured"]

(***************************************************************************)
(* C13 as claimed: in every state reachable by transcribe, extract,        *)
(* summary and reset actions, successful or failing, stored minutes come   *)
(* with a stored structured record and are exactly the formatter's output  *)
(* for it, and the structured record is never updated without the minutes  *)
(* being regenerated from it.                                              *)
(***************************************************************************)
C13_SessionConsistency ==
    /\ "minutes" \in DOMAIN session_state => MinutesOfStructured
    /\ StructuredUpdated => MinutesOfStructured

Verified(session) ==
    "password_verified" \in DOMAIN session /\ session["password_verified"]

(***************************************************************************)
(* C14: in every reachable session state, any of transcript, structured,   *)
(* minutes, narrative or keypoints_summary being present implies that      *)
(* password_verified is true; password_verified becomes true only by       *)
(* submitting a password equal to the configured one; and no action,       *)
(* Restart Session included, sets it back to false.                        *)
(***************************************************************************)
C14_PasswordGate ==
    /\ (\E key \in SessionKeys : key \in DOMAIN session_state)
          => Verified(session_state)
    /\ (Verified(session_state) /\ ~Verified(prev))
          => (last_op = "password" /\ user_password = ExpectedPassword)
    /\ Verified(prev) => Verified(session_state)
    /\ Verified(session_state) => user_password = ExpectedPassword

C14_Witness ==
    /\ last_op = "restart"
    /\ Verified(prev)
    /\ "minutes" \in DOMAIN prev
    /\ Verified(session_state)
    /\ user_password = ExpectedPassword

====
